---- MODULE Spec2Model ----
(***************************************************************************)
(* Model of the loongarch-opcodes code generators                          *)
(*   scripts/go/geninstformats/main.go  (first program: per-format Go      *)
(*       encoders; second program: QEMU TCG definitions in C)              *)
(*   scripts/go/geninsndata/main.go     (Go assembler tables)              *)
(* The generators are pure functions from an instruction format to a piece *)
(* of program text.  The text is modelled as data (checks, statements,     *)
(* slot expressions, calls) and the state machine below runs that text on  *)
(* operand values with the semantics of the language it is written in.     *)
(***************************************************************************)
EXTENDS Integers, Sequences, FiniteSets, TLC

VARIABLES
    gen,        \* which generator produced the code being run
    fmt,        \* the instruction format (sequence of arguments)
    bits,       \* base opcode word (enc.bits / opc), a 32-bit word
    vals,       \* operand values, one integer per argument
    pc,         \* position of the generated code
    vidx,       \* index of the next bound check to run
    vlog,       \* indices of the bound checks that ran, in order
    verr,       \* index of the argument whose check failed (0: none)
    eidx,       \* index of the next `bits |= ...` statement (first program)
    supplied,   \* slot offset -> word OR'd in for that slot, before the shift
    calls,      \* generated functions entered, in order
    acc,        \* the word being built / returned
    descs,      \* gatherFormats: the instruction records
    formatsSet, \* gatherFormats: signature -> format kept
    gi,         \* gatherFormats: index of the next record
    result,     \* gatherFormats: the slice returned
    gpc,        \* gatherFormats: position
    mpc,        \* main: position
    input,      \* main: the records the description files hold, in order
    formats,    \* main: the formats slice
    scs,        \* main: the slot combinations
    buf,        \* main: ectx.buf, the sections emitted so far
    out,        \* main: the formatter's result
    stdout      \* main: what was written to standard output, write by write

vars == <<gen, fmt, bits, vals, pc, vidx, vlog, verr, eidx, supplied, calls,
          acc, descs, formatsSet, gi, result, gpc,
          mpc, input, formats, scs, buf, out, stdout>>

encVars == <<gen, fmt, bits, vals, pc, vidx, vlog, verr, eidx, supplied,
             calls, acc>>

gatherVars == <<descs, formatsSet, gi, result, gpc>>

mainVars == <<mpc, input, formats, scs, buf, out, stdout>>

(***************************************************************************)
(* 32-bit words.  A word is the set of its set bit positions, so that the  *)
(* width of uint32 / int32_t arithmetic is kept exactly.                   *)
(***************************************************************************)
WordBits == 32

BitPos == 0 .. (WordBits - 1)

\* uint32(v) / (uint32_t)v / int32_t v: the two's-complement bits of the
\* integer v, -2^31 <= v < 2^31.
ToBits(v) ==
    {i \in 0 .. (WordBits - 2) : (v \div (2 ^ i)) % 2 = 1}
        \cup (IF v < 0 THEN {WordBits - 1} ELSE {})

RECURSIVE SumPow(_)
SumPow(S) ==
    IF S = {} THEN 0
    ELSE LET b == CHOOSE c \in S : TRUE IN (2 ^ b) + SumPow(S \ {b})

\* the unsigned value of a word whose top bit is clear
ToInt(x) == SumPow(x)

Or(x, y) == x \cup y

And(x, y) == x \cap y

\* x << n on a 32-bit unsigned operand: bits shifted past bit 31 are lost
Shl(x, n) == {b + n : b \in x} \cap BitPos

\* x >> n on uint32 (Go) / uint32_t (C): zero fill
LShr(x, n) == {b - n : b \in {c \in x : c >= n}}

\* x >> n on int32_t (C, as compiled by gcc and clang): sign fill
AShr(x, n) ==
    LShr(x, n) \cup
        (IF (WordBits - 1) \in x THEN (WordBits - n) .. (WordBits - 1) ELSE {})

(***************************************************************************)
(* The instruction-format model (package common, used by both programs).   *)
(***************************************************************************)
ArgKindIntReg == "IntReg"

ArgKindFPReg == "FPReg"

ArgKindFCCReg == "FCCReg"

ArgKindSignedImm == "SignedImm"

ArgKindUnsignedImm == "UnsignedImm"

Slot(o, w) == [offset |-> o, width |-> w]

Arg(k, s) == [kind |-> k, slots |-> s]

IsImm(a) == a.kind \in {ArgKindSignedImm, ArgKindUnsignedImm}

RECURSIVE SumWidths(_)
SumWidths(ss) ==
    IF ss = <<>> THEN 0 ELSE Head(ss).width + SumWidths(Tail(ss))

\* a.TotalWidth(): the sum of the slot widths
TotalWidth(a) == SumWidths(a.slots)


slotD == 0

slotJ == 5

slotK == 10

slotA == 15

slotM == 16

SlotOffsets == {slotD, slotJ, slotK, slotA, slotM}

\* the letter that names a slot offset ("D", "J", "K", "A", "M")
RuneOf(o) ==
    CASE o = slotD -> "D"
      [] o = slotJ -> "J"
      [] o = slotK -> "K"
      [] o = slotA -> "A"
      [] o = slotM -> "M"
      [] OTHER -> "?"

\* s.CanonicalRepr(): slot letter and, for an immediate, the slot width
\* ("k12"); a register names only its slot ("d", "j")
RECURSIVE SlotsRepr(_, _)
SlotsRepr(ss, withWidth) ==
    IF ss = <<>> THEN <<>>
    ELSE <<RuneOf(Head(ss).offset)>>
            \o (IF withWidth THEN <<ToString(Head(ss).width)>> ELSE <<>>)
            \o SlotsRepr(Tail(ss), withWidth)

\* a.CanonicalRepr(): "D", "Fj", "Cd", "Sk12", "Sd5k16", ...
ArgCanonicalRepr(a) ==
    CASE a.kind = ArgKindIntReg -> SlotsRepr(a.slots, FALSE)
      [] a.kind = ArgKindFPReg -> <<"F">> \o SlotsRepr(a.slots, FALSE)
      [] a.kind = ArgKindFCCReg -> <<"C">> \o SlotsRepr(a.slots, FALSE)
      [] a.kind = ArgKindSignedImm -> <<"S">> \o SlotsRepr(a.slots, TRUE)
      [] a.kind = ArgKindUnsignedImm -> <<"U">> \o SlotsRepr(a.slots, TRUE)

\* f.CanonicalRepr(): the structural signature of a format, the
\* concatenation of its arguments' descriptors ("DJSk12"; "EMPTY")
RECURSIVE CanonicalRepr(_)
CanonicalRepr(f) ==
    IF f = <<>> THEN <<"EMPTY">>
    ELSE IF Len(f) = 1 THEN ArgCanonicalRepr(Head(f))
    ELSE ArgCanonicalRepr(Head(f)) \o CanonicalRepr(Tail(f))

\* arguments of the LoongArch description files
argD == Arg(ArgKindIntReg, <<Slot(slotD, 5)>>)

argJ == Arg(ArgKindIntReg, <<Slot(slotJ, 5)>>)

argK == Arg(ArgKindIntReg, <<Slot(slotK, 5)>>)

argFj == Arg(ArgKindFPReg, <<Slot(slotJ, 5)>>)

argCd == Arg(ArgKindFCCReg, <<Slot(slotD, 3)>>)

argSk12 == Arg(ArgKindSignedImm, <<Slot(slotK, 12)>>)

argUk12 == Arg(ArgKindUnsignedImm, <<Slot(slotK, 12)>>)

argSj20 == Arg(ArgKindSignedImm, <<Slot(slotJ, 20)>>)

argUa2 == Arg(ArgKindUnsignedImm, <<Slot(slotA, 2)>>)

argUk5 == Arg(ArgKindUnsignedImm, <<Slot(slotK, 5)>>)

argUm5 == Arg(ArgKindUnsignedImm, <<Slot(slotM, 5)>>)

\* Sd5k16 = (MSB) DDDDDKKKKKKKKKKKKKKKK (LSB): the slot at offset 0 holds
\* the high fragment and is listed first
argSd5k16 == Arg(ArgKindSignedImm, <<Slot(slotD, 5), Slot(slotK, 16)>>)

argSd10k16 == Arg(ArgKindSignedImm, <<Slot(slotD, 10), Slot(slotK, 16)>>)

fmtEMPTY == <<>>

fmtDJ == <<argD, argJ>>

fmtDJSk12 == <<argD, argJ, argSk12>>

fmtDJUk12 == <<argD, argJ, argUk12>>

fmtDSj20 == <<argD, argSj20>>

fmtJSd5k16 == <<argJ, argSd5k16>>

fmtSd10k16 == <<argSd10k16>>

fmtCdFj == <<argCd, argFj>>

fmtDJKUa2 == <<argD, argJ, argK, argUa2>>

fmtDJUk5Um5 == <<argD, argJ, argUk5, argUm5>>

Formats ==
    {fmtEMPTY, fmtDJ, fmtDJSk12, fmtDJUk12, fmtDSj20, fmtJSd5k16,
     fmtSd10k16, fmtCdFj, fmtDJKUa2, fmtDJUk5Um5}

\* every slot of a format, in argument order then slot order
RECURSIVE AllSlots(_)
AllSlots(f) ==
    IF f = <<>> THEN <<>> ELSE Head(f).slots \o AllSlots(Tail(f))

SlotRange(s) == s.offset .. (s.offset + s.width - 1)

\* the bit positions a format's slots cover
SlotBits(f) ==
    UNION {SlotRange(AllSlots(f)[i]) : i \in DOMAIN AllSlots(f)}

ArgBits(a) == UNION {SlotRange(a.slots[i]) : i \in DOMAIN a.slots}

\* section 3 of the specification: slots pairwise disjoint, inside [0, 32)
Disjoint(f) ==
    /\ \A i, j \in DOMAIN AllSlots(f) :
          i # j => SlotRange(AllSlots(f)[i]) \cap SlotRange(AllSlots(f)[j]) = {}
    /\ SlotBits(f) \subseteq BitPos

(***************************************************************************)
(* Slot combinations (geninsndata/main.go 95-161, the same code in the     *)
(* second program of geninstformats/main.go 442-508).                      *)
(***************************************************************************)
RECURSIVE Insert(_, _)
Insert(x, sorted) ==
    IF sorted = <<>> THEN <<x>>
    ELSE IF x <= Head(sorted) THEN <<x>> \o sorted
    ELSE <<Head(sorted)>> \o Insert(x, Tail(sorted))

\* sort.Ints
RECURSIVE SortInts(_)
SortInts(xs) ==
    IF xs = <<>> THEN <<>> ELSE Insert(Head(xs), SortInts(Tail(xs)))

\* slotOffsetFromRune: the offset a combination letter stands for
slotOffsetFromRune(s) ==
    CASE s = "D" -> slotD
      [] s = "J" -> slotJ
      [] s = "K" -> slotK
      [] s = "A" -> slotA
      [] s = "M" -> slotM
      [] OTHER -> -1

\* slotCombinationForFmt: the letters of all slot offsets of the format in
\* ascending offset order ("DJKM"); panics on any other offset
slotCombinationForFmt(f) ==
    LET offs == SortInts([i \in DOMAIN AllSlots(f) |-> AllSlots(f)[i].offset])
    IN  IF \E i \in DOMAIN offs : offs[i] \notin SlotOffsets
        THEN [panic |-> TRUE, sc |-> <<>>]
        ELSE [panic |-> FALSE, sc |-> [i \in DOMAIN offs |-> RuneOf(offs[i])]]

\* gatherDistinctSlotCombinations: the set of combinations of the non-empty
\* formats (the sort that follows fixes the emission order only)
gatherDistinctSlotCombinations(fs) ==
    {slotCombinationForFmt(f).sc : f \in {g \in fs : Len(g) > 0}}

\* emitSlotEncoderFn: the shared combinator of one slot combination,
\*     return bits | d | j<<5 | k<<10
\* one term per letter: the parameter and the shift (none for offset 0)
emitSlotEncoderFn(sc) ==
    [params |-> sc,
     terms |-> [i \in DOMAIN sc |->
                  [param |-> i,
                   shl |-> IF slotOffsetFromRune(sc[i]) > 0
                           THEN slotOffsetFromRune(sc[i]) ELSE 0]]]

\* running a combinator on its arguments (uint32 / uint32_t parameters)
RECURSIVE OrTerms(_, _, _)
OrTerms(terms, args, w) ==
    IF terms = <<>> THEN w
    ELSE OrTerms(Tail(terms), args,
                 Or(w, Shl(args[Head(terms).param], Head(terms).shl)))

RunSlotEncoder(fn, w, args) == OrTerms(fn.terms, args, w)

(***************************************************************************)
(* Validators.                                                             *)
(***************************************************************************)
\* the bound-check function emitted for an argument kind, and its width
\* argument (immediates only)
wantFuncName(a) ==
    CASE a.kind = ArgKindIntReg -> "wantIntReg"
      [] a.kind = ArgKindFPReg -> "wantFPReg"
      [] a.kind = ArgKindFCCReg -> "wantFCCReg"
      [] a.kind = ArgKindSignedImm -> "wantSignedImm"
      [] a.kind = ArgKindUnsignedImm -> "wantUnsignedImm"

\* mutant: the checks emitted last argument first
emitValidatorForFormat_Reversed(f) ==
    [i \in DOMAIN f |->
        [fn |-> wantFuncName(f[Len(f) + 1 - i]),
         arg |-> Len(f) + 1 - i,
         width |-> IF IsImm(f[Len(f) + 1 - i])
                   THEN TotalWidth(f[Len(f) + 1 - i]) ELSE 0,
         onErr |-> "return"]]

\* emitValidatorForFormat (both Go programs): for every argument, in
\* declaration order,
\*     if err := want<kind>(argX[, width]); err != nil { return err }
\* and `return nil` after the last one
emitValidatorForFormat(f) ==
    [i \in DOMAIN f |->
        [fn |-> wantFuncName(f[i]),
         arg |-> i,
         width |-> IF IsImm(f[i]) THEN TotalWidth(f[i]) ELSE 0,
         onErr |-> "return"]]

\* wantIntReg / wantFPReg / wantFCCReg / wantSignedImm / wantUnsignedImm of
\* the assembler: section 4.3 of the specification
Want(fn, a, v, width) ==
    CASE fn = "wantSignedImm" ->
            (-(2 ^ (width - 1)) <= v) /\ (v <= (2 ^ (width - 1)) - 1)
      [] fn = "wantUnsignedImm" -> (0 <= v) /\ (v <= (2 ^ width) - 1)
      [] OTHER -> (0 <= v) /\ (v <= (2 ^ TotalWidth(a)) - 1)

\* mutant: the signed maximum computed from W instead of W - 1
assertForArg_WideSigned(a) ==
    CASE a.kind = ArgKindSignedImm ->
            LET max == (2 ^ TotalWidth(a)) - 1
                negativeMin == max + 1
            IN  [hasLo |-> TRUE, lo |-> -negativeMin, hi |-> max]
      [] a.kind = ArgKindUnsignedImm ->
            [hasLo |-> FALSE, lo |-> 0, hi |-> (2 ^ TotalWidth(a)) - 1]
      [] OTHER ->
            [hasLo |-> TRUE, lo |-> 0, hi |-> (2 ^ TotalWidth(a)) - 1]

\* the tcg_debug_assert emitted by emitFmtEncoderFn for one argument:
\*   register:   x >= 0 && x <= max         max = (1 << W) - 1
\*   signed:     x >= -negMin && x <= max   max = (1 << (W-1)) - 1,
\*                                          negMin = max + 1
\*   unsigned:   x <= max                   max = (1 << W) - 1
assertForArg(a) ==
    CASE a.kind = ArgKindSignedImm ->
            LET max == (2 ^ (TotalWidth(a) - 1)) - 1
                negativeMin == max + 1
            IN  [hasLo |-> TRUE, lo |-> -negativeMin, hi |-> max]
      [] a.kind = ArgKindUnsignedImm ->
            [hasLo |-> FALSE, lo |-> 0, hi |-> (2 ^ TotalWidth(a)) - 1]
      [] OTHER ->
            [hasLo |-> TRUE, lo |-> 0, hi |-> (2 ^ TotalWidth(a)) - 1]

\* fieldDescsForArgs: the C type of the parameter of an argument
fieldTyp(a) ==
    CASE a.kind = ArgKindSignedImm -> "int32_t"
      [] a.kind = ArgKindUnsignedImm -> "uint32_t"
      [] OTHER -> "TCGReg"

\* the assertion on a value of the parameter's type: an int32_t is compared
\* as a signed number, a uint32_t after conversion to unsigned
AssertHolds(a, v) ==
    LET c == assertForArg(a)
    IN  IF fieldTyp(a) = "uint32_t"
        THEN /\ (WordBits - 1) \notin ToBits(v)
             /\ ToInt(ToBits(v)) <= c.hi
             /\ (c.hasLo => ToInt(ToBits(v)) >= c.lo)
        ELSE (c.hasLo => v >= c.lo) /\ v <= c.hi

(***************************************************************************)
(* Encoders.  An expression of the generated text over one argument is     *)
(*     arg [>> shr] [& mask] [<< shl]                                      *)
(* with shr = 0 / mask = -1 / shl = 0 when that part is not emitted.       *)
(***************************************************************************)
NoMask == -1

\* remainingBits after consuming slots 1..k of argument a
remainingBits(a, k) == TotalWidth(a) - SumWidths(SubSeq(a.slots, 1, k))

\* mutant: the shift taken before remainingBits is decremented
fragmentExpr_ShiftBefore(a, i, k) ==
    [arg |-> i,
     shr |-> remainingBits(a, k - 1),
     mask |-> (2 ^ a.slots[k].width) - 1,
     shl |-> 0,
     slot |-> a.slots[k].offset]

\* mutant: the mask one bit too narrow
fragmentExpr_NarrowMask(a, i, k) ==
    [arg |-> i,
     shr |-> IF remainingBits(a, k) > 0 THEN remainingBits(a, k) ELSE 0,
     mask |-> (2 ^ (a.slots[k].width - 1)) - 1,
     shl |-> 0,
     slot |-> a.slots[k].offset]

\* the fragment expression of slot k of a multi-slot argument (the same in
\* the three generators): arg >> remainingBits & mask, the shift emitted
\* only when remainingBits > 0
fragmentExpr(a, i, k) ==
    [arg |-> i,
     shr |-> IF remainingBits(a, k) > 0 THEN remainingBits(a, k) ELSE 0,
     mask |-> (2 ^ a.slots[k].width) - 1,
     shl |-> 0,
     slot |-> a.slots[k].offset]

\* the statements emitEncoderForFormat emits for argument i
stmtsForArg(a, i) ==
    IF Len(a.slots) = 1
    THEN <<[arg |-> i, shr |-> 0, mask |-> NoMask,
            shl |-> a.slots[1].offset, slot |-> a.slots[1].offset]>>
    ELSE [k \in DOMAIN a.slots |-> fragmentExpr(a, i, k)]

RECURSIVE stmtsFrom(_, _)
stmtsFrom(f, i) ==
    IF i > Len(f) THEN <<>> ELSE stmtsForArg(f[i], i) \o stmtsFrom(f, i + 1)

\* emitEncoderForFormat (first program of geninstformats): the sequence of
\* `bits |= ...` statements of func encode<Format>, followed by return bits
emitEncoderForFormat(f) == stmtsFrom(f, 1)

\* the slot expression geninsndata's emitBigEncoderFn stores for slot k of
\* argument i
slotExprGo(a, i, k) ==
    IF Len(a.slots) = 1
    THEN [arg |-> i, shr |-> 0, mask |-> NoMask, shl |-> 0,
          slot |-> a.slots[1].offset]
    ELSE fragmentExpr(a, i, k)

\* the slot expression emitFmtEncoderFn (QEMU) stores for slot k of
\* argument i: a single-slot signed immediate is masked to its width
slotExprTCG(a, i, k) ==
    IF Len(a.slots) = 1
    THEN IF a.kind = ArgKindSignedImm
         THEN [arg |-> i, shr |-> 0, mask |-> (2 ^ TotalWidth(a)) - 1,
               shl |-> 0, slot |-> a.slots[1].offset]
         ELSE [arg |-> i, shr |-> 0, mask |-> NoMask, shl |-> 0,
               slot |-> a.slots[1].offset]
    ELSE fragmentExpr(a, i, k)

\* <<argument index, slot index>> of every slot, in emission order
RECURSIVE SlotPairs(_, _)
SlotPairs(f, i) ==
    IF i > Len(f) THEN <<>>
    ELSE [k \in DOMAIN f[i].slots |-> <<i, k>>] \o SlotPairs(f, i + 1)

\* slotExprs := make(map[uint]string) filled in emission order: a later
\* assignment to the same offset replaces the earlier one
slotExprsGo(f) ==
    LET ps == SlotPairs(f, 1)
        off(n) == f[ps[n][1]].slots[ps[n][2]].offset
        last(o) == CHOOSE n \in DOMAIN ps :
                      off(n) = o /\ \A m \in DOMAIN ps : off(m) = o => m <= n
    IN  [o \in {off(n) : n \in DOMAIN ps} |->
            slotExprGo(f[ps[last(o)][1]], ps[last(o)][1], ps[last(o)][2])]

slotExprsTCG(f) ==
    LET ps == SlotPairs(f, 1)
        off(n) == f[ps[n][1]].slots[ps[n][2]].offset
        last(o) == CHOOSE n \in DOMAIN ps :
                      off(n) = o /\ \A m \in DOMAIN ps : off(m) = o => m <= n
    IN  [o \in {off(n) : n \in DOMAIN ps} |->
            slotExprTCG(f[ps[last(o)][1]], ps[last(o)][1], ps[last(o)][2])]

\* mutant: the slot expressions passed in the order the slots are declared
callSlotEncoder_DeclOrder(f, exprs) ==
    LET c == slotCombinationForFmt(f)
    IN  IF c.panic \/ \E i \in DOMAIN c.sc :
                         slotOffsetFromRune(c.sc[i]) \notin DOMAIN exprs
        THEN [kind |-> "panic"]
        ELSE [kind |-> "call",
              fn |-> c.sc,
              args |-> [i \in DOMAIN c.sc |-> exprs[AllSlots(f)[i].offset]]]

\* the tail shared by emitBigEncoderFn and emitFmtEncoderFn: the call of the
\* format's slot combinator with one slot expression per letter
callSlotEncoder(f, exprs) ==
    LET c == slotCombinationForFmt(f)
    IN  IF c.panic \/ \E i \in DOMAIN c.sc :
                         slotOffsetFromRune(c.sc[i]) \notin DOMAIN exprs
        THEN [kind |-> "panic"]
        ELSE [kind |-> "call",
              fn |-> c.sc,
              args |-> [i \in DOMAIN c.sc |->
                           exprs[slotOffsetFromRune(c.sc[i])]]]

\* mutant: no special case for EMPTY
emitBigEncoderFn_NoEmptyCase(f) == callSlotEncoder(f, slotExprsGo(f))

\* emitBigEncoderFn (geninsndata): the case of the dispatch switch emitted
\* for format f
emitBigEncoderFn(f) ==
    IF Len(f) = 0 THEN [kind |-> "return_bits"]
    ELSE callSlotEncoder(f, slotExprsGo(f))

\* emitFmtEncoderFn (QEMU): the per-format encoder, none for EMPTY
emitFmtEncoderFn(f) ==
    IF Len(f) = 0 THEN [kind |-> "none"]
    ELSE callSlotEncoder(f, slotExprsTCG(f))

\* emitTCGEmitterForInsn (QEMU): the body of tcg_out_<insn>
emitTCGEmitterForInsn(f) ==
    IF Len(f) = 0 THEN [kind |-> "out_opc"]
    ELSE [kind |-> "out_encoded", fn |-> "encode_insn"]

\* the value of an expression of the generated text on the word x of its
\* argument; signed selects the shift of int32_t
EvalExpr(e, x, signed) ==
    LET shifted == IF e.shr > 0
                   THEN (IF signed THEN AShr(x, e.shr) ELSE LShr(x, e.shr))
                   ELSE x
    IN  IF e.mask = NoMask THEN shifted ELSE And(shifted, ToBits(e.mask))

(***************************************************************************)
(* Running the generated code.                                             *)
(***************************************************************************)
GoFormats == "geninstformats"

GoAsm == "geninsndata"

Qemu == "qemutcg"

Gens == {GoFormats, GoAsm, Qemu}

\* base opcode words: the 0x10000000 of the specification's scenario and
\* 0x02800000 (addi.w), which has bits inside the k16 slot
Bases == {ToBits(268435456), ToBits(41943040)}

\* operand values tried for an argument: both sides of each bound, and for
\* the 21-bit split immediate the values 0x155555 and 0x0A5555
CandVals(a) ==
    LET W == TotalWidth(a)
    IN  CASE a.kind = ArgKindSignedImm ->
                {-(2 ^ (W - 1)) - 1, -(2 ^ (W - 1)), -1, 0,
                 (2 ^ (W - 1)) - 1, 2 ^ (W - 1)}
                    \cup (IF W = 21 THEN {1398101, 677205} ELSE {})
          [] a.kind = ArgKindUnsignedImm -> {-1, 0, 1, (2 ^ W) - 1, 2 ^ W}
          [] OTHER -> {3, 7, (2 ^ W) - 1, 2 ^ W}

RECURSIVE Tuples(_)
Tuples(f) ==
    IF f = <<>> THEN {<<>>}
    ELSE {<<v>> \o t : v \in CandVals(Head(f)), t \in Tuples(Tail(f))}

NoSupplied == [o \in {} |-> {}]

GatherIdle ==
    /\ descs = <<>>
    /\ formatsSet = <<>>
    /\ gi = 0
    /\ result = <<>>
    /\ gpc = "idle"

\* main is not running
MainIdle ==
    /\ mpc = "idle"
    /\ input = <<>>
    /\ formats = <<>>
    /\ scs = <<>>
    /\ buf = <<>>
    /\ out = <<>>
    /\ stdout = <<>>

Init ==
    /\ gen \in Gens
    /\ fmt \in Formats
    /\ bits \in Bases
    /\ vals \in Tuples(fmt)
    /\ pc = "start"
    /\ vidx = 1
    /\ vlog = <<>>
    /\ verr = 0
    /\ eidx = 1
    /\ supplied = NoSupplied
    /\ calls = <<>>
    /\ acc = {}
    /\ GatherIdle
    /\ MainIdle

\* the caller of a Go encoder validates first: validate<Format>(...) entered
Validate ==
    /\ pc = "start"
    /\ gen \in {GoFormats, GoAsm}
    /\ pc' = "validating"
    /\ calls' = Append(calls, "validate")
    /\ UNCHANGED <<gen, fmt, bits, vals, vidx, vlog, verr, eidx, supplied, acc>>
    /\ UNCHANGED gatherVars
    /\ UNCHANGED mainVars

\* one `if err := want...(...); err != nil { return err }`
ValidateStep ==
    /\ pc = "validating"
    /\ vidx <= Len(emitValidatorForFormat(fmt))
    /\ LET c == emitValidatorForFormat(fmt)[vidx]
       IN  /\ vlog' = Append(vlog, c.arg)
           /\ IF Want(c.fn, fmt[c.arg], vals[c.arg], c.width)
              THEN /\ vidx' = vidx + 1
                   /\ UNCHANGED <<pc, verr>>
              ELSE /\ c.onErr = "return"
                   /\ pc' = "rejected"
                   /\ verr' = c.arg
                   /\ UNCHANGED vidx
    /\ UNCHANGED <<gen, fmt, bits, vals, eidx, supplied, calls, acc>>
    /\ UNCHANGED gatherVars
    /\ UNCHANGED mainVars

\* `return nil`
ValidateReturn ==
    /\ pc = "validating"
    /\ vidx > Len(emitValidatorForFormat(fmt))
    /\ pc' = "validated"
    /\ UNCHANGED <<gen, fmt, bits, vals, vidx, vlog, verr, eidx, supplied,
                   calls, acc>>
    /\ UNCHANGED gatherVars
    /\ UNCHANGED mainVars

\* func encode<Format>(bits uint32, args...) entered; the encoder does no
\* bound checking of its own, so it also runs on unvalidated operands
EncodeEnter ==
    /\ pc \in {"start", "validated"}
    /\ gen = GoFormats
    /\ pc' = "encoding"
    /\ acc' = bits
    /\ calls' = Append(calls, "encode")
    /\ UNCHANGED <<gen, fmt, bits, vals, vidx, vlog, verr, eidx, supplied>>
    /\ UNCHANGED gatherVars
    /\ UNCHANGED mainVars

\* one `bits |= ...` statement (Go: >> and & and << bind alike, left to
\* right, all tighter than |=)
EncodeStmt ==
    /\ pc = "encoding"
    /\ eidx <= Len(emitEncoderForFormat(fmt))
    /\ LET e == emitEncoderForFormat(fmt)[eidx]
           x == EvalExpr(e, ToBits(vals[e.arg]), FALSE)
       IN  /\ acc' = Or(acc, Shl(x, e.shl))
           /\ supplied' = [o \in DOMAIN supplied \cup {e.slot} |->
                              IF o = e.slot THEN x ELSE supplied[o]]
    /\ eidx' = eidx + 1
    /\ UNCHANGED <<gen, fmt, bits, vals, pc, vidx, vlog, verr, calls>>
    /\ UNCHANGED gatherVars
    /\ UNCHANGED mainVars

\* `return bits`
EncodeReturn ==
    /\ pc = "encoding"
    /\ eidx > Len(emitEncoderForFormat(fmt))
    /\ pc' = "done"
    /\ UNCHANGED <<gen, fmt, bits, vals, vidx, vlog, verr, eidx, supplied,
                   calls, acc>>
    /\ UNCHANGED gatherVars
    /\ UNCHANGED mainVars

\* the conversion emitBigEncoderFn emits for an argument: uint32(x) for an
\* immediate; regInt(x) / regFP(x) / regFCC(x) of the assembler for a
\* register, the register's number as a uint32
convGo(a, v) == ToBits(v)

\* the words a call of a slot combinator passes, one per parameter; in the
\* C code (inC) an int32_t parameter is shifted as a signed number
CallArgs(c, f, vs, inC) ==
    [i \in DOMAIN c.args |->
        EvalExpr(c.args[i],
                 IF inC THEN ToBits(vs[c.args[i].arg])
                 ELSE convGo(f[c.args[i].arg], vs[c.args[i].arg]),
                 inC /\ fieldTyp(f[c.args[i].arg]) = "int32_t")]

SuppliedBy(c, args) ==
    [o \in {c.args[i].slot : i \in DOMAIN c.args} |->
        args[CHOOSE i \in DOMAIN c.args : c.args[i].slot = o]]

\* func (insn *instruction) encode(): the case of the switch for the
\* instruction's format
EncodeDispatch ==
    /\ pc \in {"start", "validated"}
    /\ gen = GoAsm
    /\ LET c == emitBigEncoderFn(fmt)
       IN  \/ /\ c.kind = "return_bits"
              /\ acc' = bits
              /\ calls' = Append(calls, "encode")
              /\ UNCHANGED supplied
           \/ /\ c.kind = "call"
              /\ LET args == CallArgs(c, fmt, vals, FALSE)
                 IN  /\ acc' = RunSlotEncoder(emitSlotEncoderFn(c.fn), bits, args)
                     /\ supplied' = SuppliedBy(c, args)
              /\ calls' = calls \o <<"encode", "encodeSlots">>
    /\ pc' = "done"
    /\ UNCHANGED <<gen, fmt, bits, vals, vidx, vlog, verr, eidx>>
    /\ UNCHANGED gatherVars
    /\ UNCHANGED mainVars

\* tcg_out_<insn>(s, args...): EMPTY emits the opcode constant, every other
\* format first evaluates encode_<fmt>_insn(opc, args...)
TcgOut ==
    /\ pc = "start"
    /\ gen = Qemu
    /\ LET w == emitTCGEmitterForInsn(fmt)
       IN  \/ /\ w.kind = "out_opc"
              /\ acc' = bits
              /\ calls' = Append(calls, "tcg_out32")
              /\ pc' = "done"
           \/ /\ w.kind = "out_encoded"
              /\ acc' = acc
              /\ calls' = Append(calls, w.fn)
              /\ pc' = "asserting"
    /\ UNCHANGED <<gen, fmt, bits, vals, vidx, vlog, verr, eidx, supplied>>
    /\ UNCHANGED gatherVars
    /\ UNCHANGED mainVars

\* one tcg_debug_assert(...) of encode_<fmt>_insn (debug build: a failed
\* assertion aborts)
AssertStep ==
    /\ pc = "asserting"
    /\ vidx <= Len(fmt)
    /\ vlog' = Append(vlog, vidx)
    /\ IF AssertHolds(fmt[vidx], vals[vidx])
       THEN /\ vidx' = vidx + 1
            /\ UNCHANGED <<pc, verr>>
       ELSE /\ pc' = "aborted"
            /\ verr' = vidx
            /\ UNCHANGED vidx
    /\ UNCHANGED <<gen, fmt, bits, vals, eidx, supplied, calls, acc>>
    /\ UNCHANGED gatherVars
    /\ UNCHANGED mainVars

\* return encode_<sc>_slots(opc, slot expressions...); then tcg_out32
EncodeFmt ==
    /\ pc = "asserting"
    /\ vidx > Len(fmt)
    /\ LET c == emitFmtEncoderFn(fmt)
       IN  /\ c.kind = "call"
           /\ LET args == CallArgs(c, fmt, vals, TRUE)
              IN  /\ acc' = RunSlotEncoder(emitSlotEncoderFn(c.fn), bits, args)
                  /\ supplied' = SuppliedBy(c, args)
    /\ calls' = calls \o <<"encode_slots", "tcg_out32">>
    /\ pc' = "done"
    /\ UNCHANGED <<gen, fmt, bits, vals, vidx, vlog, verr, eidx>>
    /\ UNCHANGED gatherVars
    /\ UNCHANGED mainVars

Next ==
    \/ Validate
    \/ ValidateStep
    \/ ValidateReturn
    \/ EncodeEnter
    \/ EncodeStmt
    \/ EncodeReturn
    \/ EncodeDispatch
    \/ TcgOut
    \/ AssertStep
    \/ EncodeFmt

Spec == Init /\ [][Next]_vars

(***************************************************************************)
(* What the claims compare the code with: plain arithmetic on the operand  *)
(* values, independent of the generated expressions.                       *)
(***************************************************************************)
Pow2(n) == 2 ^ n

\* -2^(W-1) <= v <= 2^(W-1) - 1  /  0 <= v <= 2^W - 1
InRange(a, v) ==
    LET W == TotalWidth(a)
    IN  IF a.kind = ArgKindSignedImm
        THEN -Pow2(W - 1) <= v /\ v <= Pow2(W - 1) - 1
        ELSE 0 <= v /\ v <= Pow2(W) - 1

\* widths of the slots after slot k
WidthsAfter(a, k) == SumWidths(SubSeq(a.slots, k + 1, Len(a.slots)))

\* the fragment of v that belongs to slot k: v reduced to W bits, the
\* widths of the later slots dropped, the slot's width kept
SlotValue(a, v, k) ==
    ((v % Pow2(TotalWidth(a))) \div Pow2(WidthsAfter(a, k)))
        % Pow2(a.slots[k].width)

\* the contribution of argument a with value v to the packed word
ArgWord(a, v) ==
    UNION {Shl(ToBits(SlotValue(a, v, k)), a.slots[k].offset) :
              k \in DOMAIN a.slots}

PackedWord(w, f, vs) == w \cup UNION {ArgWord(f[i], vs[i]) : i \in DOMAIN f}

SingleSlotOnly(f) == \A i \in DOMAIN f : Len(f[i].slots) = 1

\* every bound check of the format ran and none failed
PassedChecks == verr = 0 /\ Len(vlog) = Len(fmt)

Returned == pc = "done"

Range(q) == {q[i] : i \in DOMAIN q}

\* C1: for a format of single-slot arguments at disjoint slots and operands
\* that passed validation, every generated encoder returns
\* base | OR of (value << slot offset), the value being the argument's
\* slot value (its two's-complement representation in the slot's width)
C1_SingleSlotEncoding ==
    (Returned /\ PassedChecks /\ SingleSlotOnly(fmt) /\ Disjoint(fmt))
        => acc = PackedWord(bits, fmt, vals)

\* C1, its concrete scenario (holds in the three generators): base
\* 0x10000000, d = 3 at offset 0, j = 7 at offset 5 give 0x100000E3
C1_Scenario ==
    (Returned /\ fmt = fmtDJ /\ bits = ToBits(268435456) /\ vals = <<3, 7>>)
        => acc = ToBits(268435683)

\* C2: for every slot of a multi-slot argument the encoder computes the
\* fragment (v >> remaining) & (2^w - 1) and the bits [offset, offset+w) of
\* the returned word equal that fragment
C2_FragmentAtOffset ==
    (Returned /\ PassedChecks /\ Disjoint(fmt) /\ bits \cap SlotBits(fmt) = {})
        => \A i \in DOMAIN fmt :
              Len(fmt[i].slots) > 1 =>
                 \A k \in DOMAIN fmt[i].slots :
                    LET s == fmt[i].slots[k]
                        frag == ToBits(SlotValue(fmt[i], vals[i], k))
                    IN  /\ supplied[s.offset] = frag
                        /\ acc \cap SlotRange(s) = Shl(frag, s.offset)

\* C4 as stated: Sd5k16 with v = 0x155555 gives the high fragment 0x0A and
\* the low fragment 0x5555
C4_Original ==
    (Returned /\ fmt = fmtJSd5k16 /\ vals[2] = 1398101)
        => supplied[slotD] = ToBits(10) /\ supplied[slotK] = ToBits(21845)

\* C4 amended: Sd5k16 with v = 0x155555 gives the high fragment 0x15 and
\* the low fragment 0x5555 (0x0A is the high fragment of 0x0A5555)
C4_Fragments ==
    /\ (Returned /\ fmt = fmtJSd5k16 /\ vals[2] = 1398101)
          => supplied[slotD] = ToBits(21) /\ supplied[slotK] = ToBits(21845)
    /\ (Returned /\ fmt = fmtJSd5k16 /\ vals[2] = 677205)
          => supplied[slotD] = ToBits(10) /\ supplied[slotK] = ToBits(21845)

C4_Witness ==
    /\ Returned
    /\ fmt = fmtJSd5k16
    /\ vals[2] = 1398101
    /\ gen = GoAsm
    /\ supplied[slotD] = ToBits(21)

\* C5: in every generated encoder the value of a signed immediate is
\* reduced modulo 2^W before it reaches a slot: what is supplied for each
\* of its slots is the fragment of (value mod 2^W)
C5_SignedReduced ==
    (Returned /\ PassedChecks)
        => \A i \in DOMAIN fmt :
              fmt[i].kind = ArgKindSignedImm =>
                 \A k \in DOMAIN fmt[i].slots :
                    supplied[fmt[i].slots[k].offset]
                        = ToBits(SlotValue(fmt[i], vals[i], k))

\* C6: with disjoint slots, a base word outside the slots and validated
\* operands, the returned word keeps the base bits outside the slots and
\* every slot holds the fragment of the argument that owns it
C6_Frame ==
    (Returned /\ PassedChecks /\ Disjoint(fmt) /\ bits \cap SlotBits(fmt) = {})
        => /\ acc \ SlotBits(fmt) = bits
           /\ \A i \in DOMAIN fmt :
                 acc \cap ArgBits(fmt[i]) = ArgWord(fmt[i], vals[i])

\* C7: a format with zero arguments encodes to exactly its base word: no
\* OR statement runs, no slot combinator and no format encoder is entered
C7_EmptyPassThrough ==
    (Returned /\ Len(fmt) = 0)
        => /\ acc = bits
           /\ eidx = 1
           /\ supplied = NoSupplied
           /\ Range(calls) \cap {"encodeSlots", "encode_slots", "encode_insn"} = {}
           /\ (gen = Qemu => calls = <<"tcg_out32">>)
           /\ emitBigEncoderFn(fmt).kind = "return_bits"
           /\ emitEncoderForFormat(fmt) = <<>>
           /\ emitFmtEncoderFn(fmt).kind = "none"
           /\ emitTCGEmitterForInsn(fmt).kind = "out_opc"

C7_Witness ==
    /\ Returned
    /\ Len(fmt) = 0
    /\ gen = Qemu
    /\ acc = ToBits(268435456)

\* C8: the bound check of an immediate of total width W accepts a signed
\* value exactly when -2^(W-1) <= v <= 2^(W-1) - 1 and an unsigned value
\* exactly when 0 <= v <= 2^W - 1 (the assertion of the QEMU encoder; the
\* Go validators call wantSignedImm / wantUnsignedImm with that W); for
\* W = 12: [-2048, 2047] and [0, 4095]
C8_BoundCheck ==
    \A i \in DOMAIN fmt :
        IsImm(fmt[i]) =>
            /\ (gen = Qemu /\ verr = i) => ~InRange(fmt[i], vals[i])
            /\ (gen = Qemu /\ verr # i /\ i \in Range(vlog))
                  => InRange(fmt[i], vals[i])
            /\ (gen = Qemu /\ i \in Range(vlog) /\ fmt[i] = argSk12)
                  => (verr # i <=> vals[i] \in {-2048, -1, 0, 2047})
            /\ (gen = Qemu /\ i \in Range(vlog) /\ fmt[i] = argUk12)
                  => (verr # i <=> vals[i] \in {0, 1, 4095})
            /\ emitValidatorForFormat(fmt)[i].width = TotalWidth(fmt[i])
            /\ emitValidatorForFormat(fmt)[i].fn =
                  (IF fmt[i].kind = ArgKindSignedImm
                   THEN "wantSignedImm" ELSE "wantUnsignedImm")

C8_Witness ==
    /\ gen = Qemu
    /\ pc = "aborted"
    /\ fmt = fmtDJSk12
    /\ verr = 3
    /\ vals[3] = -2049

\* the lowest-indexed argument that violates its bound (0: none)
FirstViolation(f, vs) ==
    IF \A i \in DOMAIN f : Want(wantFuncName(f[i]), f[i], vs[i], TotalWidth(f[i]))
    THEN 0
    ELSE CHOOSE i \in DOMAIN f :
            /\ ~Want(wantFuncName(f[i]), f[i], vs[i], TotalWidth(f[i]))
            /\ \A j \in 1 .. (i - 1) :
                  Want(wantFuncName(f[j]), f[j], vs[j], TotalWidth(f[j]))

\* C9: a validator checks its arguments in declaration order, one check
\* per argument, and returns the failure of the first argument out of
\* bounds: no check runs after a failure, and it succeeds only if every
\* argument passes
C9_ValidatorOrder ==
    (gen \in {GoFormats, GoAsm}) =>
        /\ pc = "validating" =>
              /\ vlog = [i \in 1 .. (vidx - 1) |-> i]
              /\ verr = 0
        /\ pc = "rejected" =>
              /\ verr = FirstViolation(fmt, vals)
              /\ verr # 0
              /\ vlog = [i \in 1 .. verr |-> i]
        /\ pc = "validated" =>
              /\ FirstViolation(fmt, vals) = 0
              /\ vlog = [i \in 1 .. Len(fmt) |-> i]

C9_Witness ==
    /\ gen = GoAsm
    /\ pc = "rejected"
    /\ fmt = fmtDJKUa2
    /\ vals = <<3, 32, 32, 4>>
    /\ verr = 2
    /\ vlog = <<1, 2>>

(***************************************************************************)
(* The splitting algorithm on its own: one multi-slot argument, every      *)
(* value of its width.                                                     *)
(***************************************************************************)
MaxSlotWidth == 4

SplitKinds == {ArgKindSignedImm, ArgKindUnsignedImm}

TwoSlotArgs ==
    {Arg(kd, <<Slot(slotD, w1), Slot(slotK, w2)>>) :
        kd \in SplitKinds, w1 \in 1 .. MaxSlotWidth, w2 \in 1 .. MaxSlotWidth}

ThreeSlotArgs ==
    {Arg(kd, <<Slot(slotK, w[1]), Slot(slotJ, w[2]), Slot(slotD, w[3])>>) :
        kd \in SplitKinds, w \in [1 .. 3 -> 1 .. 2]}

SplitArgs == TwoSlotArgs \cup ThreeSlotArgs \cup {argSd5k16, argSd10k16}

\* every value of the signed and of the unsigned range of the width; the
\* sample values for the wide arguments of the description files
SplitVals(a) ==
    IF a \in {argSd5k16, argSd10k16} THEN CandVals(a)
    ELSE -(2 ^ (TotalWidth(a) - 1)) .. ((2 ^ TotalWidth(a)) - 1)

InitSplit ==
    /\ gen \in Gens
    /\ \E a \in SplitArgs :
          /\ fmt = <<a>>
          /\ \E v \in SplitVals(a) : vals = <<v>>
    /\ bits = ToBits(268435456)
    /\ pc = "start"
    /\ vidx = 1
    /\ vlog = <<>>
    /\ verr = 0
    /\ eidx = 1
    /\ supplied = NoSupplied
    /\ calls = <<>>
    /\ acc = {}
    /\ GatherIdle
    /\ MainIdle

NextSplit ==
    \/ EncodeEnter
    \/ EncodeStmt
    \/ EncodeReturn
    \/ EncodeDispatch
    \/ TcgOut
    \/ AssertStep
    \/ EncodeFmt

SpecSplit == InitSplit /\ [][NextSplit]_vars

\* the shift the generator g emitted for slot k of argument i
EmittedShr(g, f, i, k) ==
    LET o == f[i].slots[k].offset
    IN  CASE g = GoAsm -> slotExprsGo(f)[o].shr
          [] g = Qemu -> slotExprsTCG(f)[o].shr
          [] OTHER ->
                LET ss == emitEncoderForFormat(f)
                IN  ss[CHOOSE n \in DOMAIN ss :
                              ss[n].arg = i /\ ss[n].slot = o].shr

\* the fragments supplied for the slots of argument a, concatenated most
\* significant first
Recombined(a) ==
    UNION {Shl(supplied[a.slots[k].offset], WidthsAfter(a, k)) :
              k \in DOMAIN a.slots}

\* C3: the fragments of a multi-slot argument, each shifted left by the
\* widths of the slots after it and OR'd together, equal v & (2^W - 1);
\* the shift `remaining` strictly decreases and is 0 at the last slot
C3_RoundTrip ==
    \A i \in DOMAIN fmt :
        Len(fmt[i].slots) > 1 =>
            /\ Returned =>
                  Recombined(fmt[i])
                      = And(ToBits(vals[i]), 0 .. (TotalWidth(fmt[i]) - 1))
            /\ \A k \in DOMAIN fmt[i].slots :
                  /\ EmittedShr(gen, fmt, i, k) = WidthsAfter(fmt[i], k)
                  /\ k < Len(fmt[i].slots) =>
                        EmittedShr(gen, fmt, i, k) > EmittedShr(gen, fmt, i, k + 1)
                  /\ k = Len(fmt[i].slots) => EmittedShr(gen, fmt, i, k) = 0

C3_Witness ==
    /\ Returned
    /\ gen = Qemu
    /\ Len(fmt) = 1
    /\ Len(fmt[1].slots) = 3
    /\ vals = <<-3>>
    /\ Recombined(fmt[1]) = ToBits(5)

(***************************************************************************)
(* gatherFormats.                                                          *)
(***************************************************************************)
MaxDescs == 4

GatherFormats == {fmtEMPTY, fmtDJ, fmtDJSk12}

\* the records of a run: every record has a format object of its own (ptr
\* tells the objects apart)
DescLists ==
    UNION {{[i \in 1 .. n |-> [format |-> [ptr |-> i, args |-> q[i]]]] :
               q \in [1 .. n -> GatherFormats]} : n \in 0 .. MaxDescs}

\* mutant: the map entry replaced on every record
formatsSetPut_Overwrite(m, d) ==
    LET name == CanonicalRepr(d.format.args)
    IN  [n \in DOMAIN m \cup {name} |-> IF n = name THEN d.format ELSE m[n]]

\* the body of gatherFormats' loop:
\*     if _, ok := formatsSet[name]; !ok { formatsSet[name] = d.Format }
formatsSetPut(m, d) ==
    LET name == CanonicalRepr(d.format.args)
    IN  IF name \in DOMAIN m THEN m
        ELSE [n \in DOMAIN m \cup {name} |-> IF n = name THEN d.format ELSE m[n]]

EncIdle ==
    /\ gen = GoAsm
    /\ fmt = <<>>
    /\ bits = {}
    /\ vals = <<>>
    /\ pc = "idle"
    /\ vidx = 1
    /\ vlog = <<>>
    /\ verr = 0
    /\ eidx = 1
    /\ supplied = NoSupplied
    /\ calls = <<>>
    /\ acc = {}

InitGather ==
    /\ descs \in DescLists
    /\ formatsSet = [n \in {} |-> 0]
    /\ gi = 1
    /\ result = <<>>
    /\ gpc = "loop"
    /\ EncIdle
    /\ MainIdle

\* one iteration of `for _, d := range descs`
GatherInsert ==
    /\ gpc = "loop"
    /\ gi <= Len(descs)
    /\ formatsSet' = formatsSetPut(formatsSet, descs[gi])
    /\ gi' = gi + 1
    /\ UNCHANGED <<descs, result, gpc>>
    /\ UNCHANGED encVars
    /\ UNCHANGED mainVars

\* result := make([]*InsnFormat, 0, len(formatsSet))
GatherLoopEnd ==
    /\ gpc = "loop"
    /\ gi > Len(descs)
    /\ result' = <<>>
    /\ gpc' = "collect"
    /\ UNCHANGED <<descs, formatsSet, gi>>
    /\ UNCHANGED encVars
    /\ UNCHANGED mainVars

Collected == {CanonicalRepr(result[i].args) : i \in DOMAIN result}

\* one iteration of `for _, f := range formatsSet`: Go visits the keys of
\* a map in an unspecified order
GatherCollect ==
    /\ gpc = "collect"
    /\ \E name \in DOMAIN formatsSet \ Collected :
          result' = Append(result, formatsSet[name])
    /\ UNCHANGED <<descs, formatsSet, gi, gpc>>
    /\ UNCHANGED encVars
    /\ UNCHANGED mainVars

\* return result
GatherReturn ==
    /\ gpc = "collect"
    /\ DOMAIN formatsSet \ Collected = {}
    /\ gpc' = "returned"
    /\ UNCHANGED <<descs, formatsSet, gi, result>>
    /\ UNCHANGED encVars
    /\ UNCHANGED mainVars

NextGather ==
    \/ GatherInsert
    \/ GatherLoopEnd
    \/ GatherCollect
    \/ GatherReturn

SpecGather == InitGather /\ [][NextGather]_vars

SigOf(d) == CanonicalRepr(d.format.args)

\* C10: gatherFormats returns exactly one format per distinct signature of
\* the records: no two returned formats share a signature, every record's
\* signature is present, the size is the number of distinct signatures,
\* and the format kept is that of the first record carrying the signature
C10_GatherFormats ==
    gpc = "returned" =>
        /\ \A i, j \in DOMAIN result :
              i # j => CanonicalRepr(result[i].args) # CanonicalRepr(result[j].args)
        /\ \A i \in DOMAIN descs : SigOf(descs[i]) \in Collected
        /\ Len(result) = Cardinality({SigOf(descs[i]) : i \in DOMAIN descs})
        /\ \A k \in DOMAIN result :
              /\ result[k].ptr \in DOMAIN descs
              /\ descs[result[k].ptr].format = result[k]
              /\ \A i \in DOMAIN descs :
                    SigOf(descs[i]) = CanonicalRepr(result[k].args)
                        => result[k].ptr <= i

C10_Witness ==
    /\ gpc = "returned"
    /\ Len(descs) = 4
    /\ Len(result) = 2
    /\ descs[1].format.args = descs[3].format.args
    /\ descs[2].format.args = descs[4].format.args
    /\ result[1].ptr = 2
    /\ result[2].ptr = 1

(***************************************************************************)
(* The generation run: main of geninsndata (geninsndata/main.go 15-54) and *)
(* main of the second program of geninstformats/main.go (297-398).         *)
(* A string the programs compare or rewrite is the sequence of its         *)
(* characters.                                                             *)
(***************************************************************************)
\* strings.ToUpper on the characters mnemonics are written with
ToUpper(s) ==
    [i \in DOMAIN s |->
        CASE s[i] = "a" -> "A"
          [] s[i] = "b" -> "B"
          [] OTHER -> s[i]]

\* strings.ReplaceAll(s, old, new) for a one-character old
RECURSIVE ReplaceAll(_, _, _)
ReplaceAll(s, old, new) ==
    IF s = <<>> THEN <<>>
    ELSE (IF Head(s) = old THEN new ELSE <<Head(s)>>)
            \o ReplaceAll(Tail(s), old, new)

\* goOpcodeNameForInsn: slli.w => ASLLIW
goOpcodeNameForInsn(mnemonic) ==
    <<"A">> \o ToUpper(ReplaceAll(ReplaceAll(mnemonic, ".", <<>>), "_", <<>>))

\* insnMnemonicToUpperCase: "amadd_db.w" -> "AMADD_DB_W"
insnMnemonicToUpperCase(x) == ToUpper(ReplaceAll(x, ".", <<"_">>))

\* insnMnemonicToEnumVariantName
insnMnemonicToEnumVariantName(x) ==
    <<"O", "P", "C", "_">> \o insnMnemonicToUpperCase(x)

\* the byte of a slot letter
RuneByte(o) ==
    CASE o = slotD -> 68
      [] o = slotJ -> 74
      [] o = slotK -> 75
      [] o = slotA -> 65
      [] o = slotM -> 77
      [] OTHER -> 63

\* the bytes of a decimal number
RECURSIVE Digits(_)
Digits(n) ==
    IF n < 10 THEN <<48 + n>> ELSE Digits(n \div 10) \o <<48 + (n % 10)>>

\* the bytes of s.CanonicalRepr(): an integer register names its slot in
\* upper case, every other argument in lower case
RECURSIVE SlotsBytes(_, _, _)
SlotsBytes(ss, lower, withWidth) ==
    IF ss = <<>> THEN <<>>
    ELSE <<RuneByte(Head(ss).offset) + (IF lower THEN 32 ELSE 0)>>
            \o (IF withWidth THEN Digits(Head(ss).width) ELSE <<>>)
            \o SlotsBytes(Tail(ss), lower, withWidth)

\* the bytes of a.CanonicalRepr()
ArgBytes(a) ==
    CASE a.kind = ArgKindIntReg -> SlotsBytes(a.slots, FALSE, FALSE)
      [] a.kind = ArgKindFPReg -> <<70>> \o SlotsBytes(a.slots, TRUE, FALSE)
      [] a.kind = ArgKindFCCReg -> <<67>> \o SlotsBytes(a.slots, TRUE, FALSE)
      [] a.kind = ArgKindSignedImm -> <<83>> \o SlotsBytes(a.slots, TRUE, TRUE)
      [] a.kind = ArgKindUnsignedImm -> <<85>> \o SlotsBytes(a.slots, TRUE, TRUE)

\* the bytes of f.CanonicalRepr(); "EMPTY" for no arguments
RECURSIVE ReprBytes(_)
ReprBytes(f) ==
    IF f = <<>> THEN <<69, 77, 80, 84, 89>>
    ELSE IF Len(f) = 1 THEN ArgBytes(Head(f))
    ELSE ArgBytes(Head(f)) \o ReprBytes(Tail(f))

\* the bytes of a slot combination ("DJK")
ScBytes(sc) == [i \in DOMAIN sc |-> RuneByte(slotOffsetFromRune(sc[i]))]

\* Go's < on strings: byte by byte, a proper prefix first
RECURSIVE LessBytes(_, _)
LessBytes(x, y) ==
    IF y = <<>> THEN FALSE
    ELSE IF x = <<>> THEN TRUE
    ELSE IF Head(x) # Head(y) THEN Head(x) < Head(y)
    ELSE LessBytes(Tail(x), Tail(y))

\* the orders in which the elements of q can be laid out
Perms(q) ==
    {[i \in DOMAIN q |-> q[pi[i]]] :
        pi \in {f \in [DOMAIN q -> DOMAIN q] :
                   \A i, j \in DOMAIN q : i # j => f[i] # f[j]}}

\* the orders in which a range over a map (a set of keys) can visit it
SetOrders(S) ==
    {q \in [1 .. Cardinality(S) -> S] :
        \A i, j \in 1 .. Cardinality(S) : i # j => q[i] # q[j]}

\* sort.Slice(descs, descs[i].Word < descs[j].Word): sort.Slice is not
\* stable, the records come out in an order in which no record precedes one
\* of a smaller word, records of equal word in any order
SortByWord(ds) ==
    {p \in Perms(ds) :
        \A i, j \in DOMAIN p : i < j => ~(p[j].word < p[i].word)}

\* sort.Slice(formats, CanonicalRepr() <)
SortByRepr(fs) ==
    {p \in Perms(fs) :
        \A i, j \in DOMAIN p :
            i < j => ~LessBytes(ReprBytes(p[j].args), ReprBytes(p[i].args))}

\* sort.Strings(result) on the slot combinations collected from the map
SortStrings(q) ==
    CHOOSE p \in Perms(q) :
        \A i, j \in DOMAIN p : i < j => ~LessBytes(ScBytes(p[j]), ScBytes(p[i]))

\* filterUnusedInsns: the records that carry the attribute "qemu"
filterUnusedInsns(ds) == SelectSeq(ds, LAMBDA d : "qemu" \in d.attribs)

\* fieldNamesForArgs of geninsndata panics ("should never happen") on a
\* register whose slot is none of D, J, K, A
fieldNamesPanic(f) ==
    \E i \in DOMAIN f :
        ~IsImm(f[i]) /\ f[i].slots[1].offset \notin {slotD, slotJ, slotK, slotA}

\* emitInsnFormatTypes: one constant per format
emitInsnFormatTypes(fs) == [i \in DOMAIN fs |-> CanonicalRepr(fs[i].args)]

\* emitSlotEncoders: one combinator per slot combination
emitSlotEncoders(ss) == [i \in DOMAIN ss |-> emitSlotEncoderFn(ss[i])]

\* emitInsnEncodings: one table line per record,
\*     <goOpcodeName> & obj.AMask: {bits: 0x<word>, fmt: insnFormat<sig>},
emitInsnEncodings(ds) ==
    [i \in DOMAIN ds |->
        [key |-> goOpcodeNameForInsn(ds[i].mnemonic),
         bits |-> ds[i].word,
         fmt |-> CanonicalRepr(ds[i].format.args)]]

\* emitOpcEnum: one enumerator per record,  OPC_<NAME> = 0x<word>,
emitOpcEnum(ds) ==
    [i \in DOMAIN ds |->
        [key |-> insnMnemonicToEnumVariantName(ds[i].mnemonic),
         bits |-> ds[i].word]]

\* the emit steps of main, in order: geninsndata 36-50, QEMU program 328-350
StagesOf(g) ==
    IF g = GoAsm
    THEN <<"header", "types", "validators", "slotEncoders", "encodings",
           "encoders">>
    ELSE <<"header", "opcEnum", "slotEncoders", "fmtEncoders", "emitters">>

NoText == [panic |-> TRUE, text |-> <<>>]

Text(t) == [panic |-> FALSE, text |-> t]

\* one emit step of geninsndata's main: the text it appends to the buffer,
\* or the panic it ends in
EmitGoAsm(st, ds, fs, ss) ==
    CASE st = "header" -> Text(<<"geninsndata">>)
      [] st = "types" -> Text(emitInsnFormatTypes(fs))
      [] st = "validators" ->
            IF \E i \in DOMAIN fs : fieldNamesPanic(fs[i].args) THEN NoText
            ELSE Text([i \in DOMAIN fs |->
                          [fmt |-> CanonicalRepr(fs[i].args),
                           checks |-> emitValidatorForFormat(fs[i].args)]])
      [] st = "slotEncoders" -> Text(emitSlotEncoders(ss))
      [] st = "encodings" -> Text(emitInsnEncodings(ds))
      [] st = "encoders" ->
            IF \E i \in DOMAIN fs :
                   \/ fieldNamesPanic(fs[i].args)
                   \/ emitBigEncoderFn(fs[i].args).kind = "panic"
            THEN NoText
            ELSE Text([i \in DOMAIN fs |->
                          [fmt |-> CanonicalRepr(fs[i].args),
                           body |-> emitBigEncoderFn(fs[i].args)]])

\* one emit step of the QEMU program's main; the header carries the commit
\* hash, and MustGetGitCommitHash panics when it cannot get one
EmitQemu(st, ds, fs, ss, hashOk) ==
    CASE st = "header" -> IF hashOk THEN Text(<<"genqemutcgdefs">>) ELSE NoText
      [] st = "opcEnum" -> Text(emitOpcEnum(ds))
      [] st = "slotEncoders" -> Text(emitSlotEncoders(ss))
      [] st = "fmtEncoders" ->
            IF \E i \in DOMAIN fs :
                   emitFmtEncoderFn(fs[i].args).kind = "panic" THEN NoText
            ELSE Text([i \in DOMAIN fs |->
                          [fmt |-> CanonicalRepr(fs[i].args),
                           body |-> emitFmtEncoderFn(fs[i].args)]])
      [] st = "emitters" ->
            Text([i \in DOMAIN ds |->
                     [key |-> insnMnemonicToEnumVariantName(ds[i].mnemonic),
                      body |-> emitTCGEmitterForInsn(ds[i].format.args)]])

\* mutant: the text is handed on when the formatter fails
finalize_KeepOnError(b, ok) ==
    [panic |-> FALSE, result |-> [formatted |-> ok, text |-> b]]

\* ectx.finalize() (format.Source) and, for QEMU, the clang-format run: the
\* formatted text, or a panic when the formatter fails
finalize(b, ok) ==
    IF ok THEN [panic |-> FALSE, result |-> [formatted |-> TRUE, text |-> b]]
    ELSE [panic |-> TRUE, result |-> <<>>]

(***************************************************************************)
(* The runs of main.                                                       *)
(***************************************************************************)
MaxRecs == 3

\* two arguments in the same slot
fmtDUd5 == <<argD, Arg(ArgKindUnsignedImm, <<Slot(slotD, 5)>>)>>

\* a slot at an offset that has no letter
fmtOff3 == <<Arg(ArgKindIntReg, <<Slot(3, 5)>>)>>

\* a register in slot M
fmtFm == <<Arg(ArgKindFPReg, <<Slot(slotM, 5)>>)>>

Rec(m, w, at, f) == [mnemonic |-> m, word |-> w, attribs |-> at, args |-> f]

\* the lines the description files can hold
MainRecords ==
    {Rec(<<"a", ".", "b">>, 100, {"qemu"}, fmtDJSk12),
     Rec(<<"a", "_", "b">>, 200, {"qemu"}, fmtDUd5),
     Rec(<<"a", "b">>, 200, {"qemu"}, fmtJSd5k16),
     Rec(<<"b">>, 300, {"qemu"}, fmtEMPTY),
     Rec(<<"b", "b">>, 700, {"qemu"}, fmtOff3),
     Rec(<<"a", "a">>, 800, {}, fmtFm)}

InputLists == UNION {[1 .. n -> MainRecords] : n \in 0 .. MaxRecs}

\* readInsnDescs / common.ReadInsnDescs: the records of all files in order,
\* every record with a format object of its own
ReadInsnDescs(in) ==
    [i \in DOMAIN in |->
        [mnemonic |-> in[i].mnemonic, word |-> in[i].word,
         attribs |-> in[i].attribs,
         format |-> [ptr |-> i, args |-> in[i].args]]]

MainGens == {GoAsm, Qemu}

InitMain ==
    /\ gen \in MainGens
    /\ fmt = <<>>
    /\ bits = {}
    /\ vals = <<>>
    /\ pc = "idle"
    /\ vidx = 1
    /\ vlog = <<>>
    /\ verr = 0
    /\ eidx = 1
    /\ supplied = NoSupplied
    /\ calls = <<>>
    /\ acc = {}
    /\ GatherIdle
    /\ mpc = "read"
    /\ input \in InputLists
    /\ formats = <<>>
    /\ scs = <<>>
    /\ buf = <<>>
    /\ out = <<>>
    /\ stdout = <<>>

\* descs, err := readInsnDescs(inputs); if err != nil { panic(err) }
MainRead ==
    /\ mpc = "read"
    /\ \E ok \in BOOLEAN :
          IF ok
          THEN /\ descs' = ReadInsnDescs(input)
               /\ mpc' = IF gen = Qemu THEN "filter" ELSE "gather"
          ELSE /\ descs' = descs
               /\ mpc' = "panicked"
    /\ UNCHANGED <<formatsSet, gi, result, gpc>>
    /\ UNCHANGED <<input, formats, scs, buf, out, stdout>>
    /\ UNCHANGED encVars

\* descs = filterUnusedInsns(descs)
MainFilter ==
    /\ mpc = "filter"
    /\ descs' = filterUnusedInsns(descs)
    /\ mpc' = "gather"
    /\ UNCHANGED <<formatsSet, gi, result, gpc>>
    /\ UNCHANGED <<input, formats, scs, buf, out, stdout>>
    /\ UNCHANGED encVars

\* formats := gatherFormats(descs): the call
MainGatherFormats ==
    /\ mpc = "gather"
    /\ gpc = "idle"
    /\ formatsSet' = [n \in {} |-> 0]
    /\ gi' = 1
    /\ result' = <<>>
    /\ gpc' = "loop"
    /\ mpc' = "gathering"
    /\ UNCHANGED descs
    /\ UNCHANGED <<input, formats, scs, buf, out, stdout>>
    /\ UNCHANGED encVars

\* formats := gatherFormats(descs): the return
MainGathered ==
    /\ mpc = "gathering"
    /\ gpc = "returned"
    /\ formats' = result
    /\ gpc' = "idle"
    /\ mpc' = "combos"
    /\ UNCHANGED <<descs, formatsSet, gi, result>>
    /\ UNCHANGED <<input, scs, buf, out, stdout>>
    /\ UNCHANGED encVars

\* scs := gatherDistinctSlotCombinations(formats): the combinations are put
\* in a map, read back in the map's order and sorted; slotCombinationForFmt
\* panics on a slot offset that has no letter
MainCombos ==
    /\ mpc = "combos"
    /\ LET fs == {formats[i].args : i \in DOMAIN formats}
       IN  IF \E f \in fs : Len(f) > 0 /\ slotCombinationForFmt(f).panic
           THEN /\ mpc' = "panicked"
                /\ scs' = scs
           ELSE /\ mpc' = "sortdescs"
                /\ \E order \in SetOrders(gatherDistinctSlotCombinations(fs)) :
                      scs' = SortStrings(order)
    /\ UNCHANGED gatherVars
    /\ UNCHANGED <<input, formats, buf, out, stdout>>
    /\ UNCHANGED encVars

\* sort.Slice(descs, ...Word...)
MainSortDescs ==
    /\ mpc = "sortdescs"
    /\ descs' \in SortByWord(descs)
    /\ mpc' = "sortformats"
    /\ UNCHANGED <<formatsSet, gi, result, gpc>>
    /\ UNCHANGED <<input, formats, scs, buf, out, stdout>>
    /\ UNCHANGED encVars

\* sort.Slice(formats, ...CanonicalRepr()...)
MainSortFormats ==
    /\ mpc = "sortformats"
    /\ formats' \in SortByRepr(formats)
    /\ mpc' = "emit"
    /\ UNCHANGED gatherVars
    /\ UNCHANGED <<input, scs, buf, out, stdout>>
    /\ UNCHANGED encVars

\* the next emit step of main: its text is appended to the buffer, or the
\* step panics
MainEmit ==
    /\ mpc = "emit"
    /\ Len(buf) < Len(StagesOf(gen))
    /\ \E hashOk \in BOOLEAN :
          LET st == StagesOf(gen)[Len(buf) + 1]
              e == IF gen = GoAsm THEN EmitGoAsm(st, descs, formats, scs)
                   ELSE EmitQemu(st, descs, formats, scs, hashOk)
          IN  IF e.panic
              THEN /\ mpc' = "panicked"
                   /\ buf' = buf
              ELSE /\ mpc' = mpc
                   /\ buf' = Append(buf, [stage |-> st, text |-> e.text])
    /\ UNCHANGED gatherVars
    /\ UNCHANGED <<input, formats, scs, out, stdout>>
    /\ UNCHANGED encVars

\* result := ectx.finalize(), and for QEMU the clang-format run on it: the
\* formatter fails or returns the formatted text
MainFinalize ==
    /\ mpc = "emit"
    /\ Len(buf) = Len(StagesOf(gen))
    /\ \E ok \in BOOLEAN :
          LET r == finalize(buf, ok)
          IN  IF r.panic
              THEN /\ mpc' = "panicked"
                   /\ out' = out
              ELSE /\ mpc' = "write"
                   /\ out' = r.result
    /\ UNCHANGED gatherVars
    /\ UNCHANGED <<input, formats, scs, buf, stdout>>
    /\ UNCHANGED encVars

\* os.Stdout.Write(result), the last statement of main
MainWrite ==
    /\ mpc = "write"
    /\ stdout' = Append(stdout, out)
    /\ mpc' = "exited"
    /\ UNCHANGED gatherVars
    /\ UNCHANGED <<input, formats, scs, buf, out>>
    /\ UNCHANGED encVars

NextMain ==
    \/ MainRead
    \/ MainFilter
    \/ MainGatherFormats
    \/ GatherInsert
    \/ GatherLoopEnd
    \/ GatherCollect
    \/ GatherReturn
    \/ MainGathered
    \/ MainCombos
    \/ MainSortDescs
    \/ MainSortFormats
    \/ MainEmit
    \/ MainFinalize
    \/ MainWrite

SpecMain == InitMain /\ [][NextMain]_vars

(***************************************************************************)
(* Properties of the generation run.                                       *)
(***************************************************************************)
\* the records in ascending word order, records of equal word in their
\* input order
RECURSIVE InsertByWord(_, _)
InsertByWord(d, sorted) ==
    IF sorted = <<>> THEN <<d>>
    ELSE IF ~(Head(sorted).word < d.word) THEN <<d>> \o sorted
    ELSE <<Head(sorted)>> \o InsertByWord(d, Tail(sorted))

RECURSIVE StableByWord(_)
StableByWord(ds) ==
    IF ds = <<>> THEN <<>> ELSE InsertByWord(Head(ds), StableByWord(Tail(ds)))

\* the format of the first record of every signature, from record i on
RECURSIVE FirstFormats(_, _)
FirstFormats(ds, i) ==
    IF i > Len(ds) THEN <<>>
    ELSE (IF \E j \in 1 .. (i - 1) : SigOf(ds[j]) = SigOf(ds[i])
          THEN <<>> ELSE <<ds[i].format>>) \o FirstFormats(ds, i + 1)

\* the records main works on
Worked(g, in) ==
    IF g = Qemu THEN filterUnusedInsns(ReadInsnDescs(in)) ELSE ReadInsnDescs(in)

\* the one text a run on the records in writes when the formats are laid out
\* in ascending signature order, the slot combinations in ascending code
\* order and the records in ascending word order, ties in input order
RunOutput(g, in) ==
    LET ds == StableByWord(Worked(g, in))
        fs == CHOOSE p \in SortByRepr(FirstFormats(Worked(g, in), 1)) : TRUE
        ss == SortStrings(CHOOSE o \in SetOrders(gatherDistinctSlotCombinations(
                                          {fs[i].args : i \in DOMAIN fs})) : TRUE)
    IN  [formatted |-> TRUE,
         text |-> [n \in DOMAIN StagesOf(g) |->
                     [stage |-> StagesOf(g)[n],
                      text |-> IF g = GoAsm
                               THEN EmitGoAsm(StagesOf(g)[n], ds, fs, ss).text
                               ELSE EmitQemu(StagesOf(g)[n], ds, fs, ss, TRUE).text]]]

\* C11: the text a run writes is determined by the ordered list of input
\* records alone: every completed run writes RunOutput, whatever order the
\* map iterations took and however the sort by opcode word broke ties
C11_Deterministic ==
    mpc = "exited" => stdout = <<RunOutput(gen, input)>>

\* the per-mnemonic tables in the buffer: the encodings table of
\* geninsndata, the opcode enumeration of the QEMU program
Tables == {buf[n].text : n \in {m \in DOMAIN buf :
                                   buf[m].stage \in {"encodings", "opcEnum"}}}

\* C12: no per-mnemonic table is ever emitted with two entries for the
\* same key: a record list in which two records share a mnemonic, or map to
\* the same generated identifier, fails the run before the table is emitted
C12_DuplicateKeyFails ==
    \A t \in Tables :
        \A i, j \in DOMAIN t : i # j => t[i].key # t[j].key

\* the encoders have been emitted: the big encoder of geninsndata, the
\* format encoders of the QEMU program
EncodersEmitted ==
    \E n \in DOMAIN buf : buf[n].stage \in {"encoders", "fmtEncoders"}

\* C13: every format an encoder was emitted for has pairwise
\* non-overlapping slots inside [0, 32): a record whose format has two
\* overlapping slots aborts the run before any encoder is emitted
C13_OverlapAborts ==
    EncodersEmitted => \A i \in DOMAIN formats : Disjoint(formats[i].args)

\* C14: output is all-or-nothing: standard output is written at most once,
\* and what is written is the formatter's result for the complete buffer,
\* after every record was read and every emit step finished; a run that
\* aborted (read error, panic in a step, formatter failure) has written
\* nothing, and text the formatter did not return is never written
C14_AllOrNothing ==
    /\ Len(stdout) <= 1
    /\ mpc = "panicked" => stdout = <<>>
    /\ \A n \in DOMAIN stdout :
          /\ mpc = "exited"
          /\ stdout[n] = out
          /\ out.formatted
          /\ out.text = buf
          /\ Len(buf) = Len(StagesOf(gen))
          /\ Len(descs) = Len(Worked(gen, input))

C14_Witness ==
    /\ mpc = "exited"
    /\ Len(stdout) = 1
    /\ Len(input) >= 2
    /\ Len(formats) >= 2

\* the slot combinations have been gathered
CombosDone == mpc \in {"sortdescs", "sortformats", "emit", "write", "exited"}

\* a non-empty format whose slot offsets are pairwise distinct and all among
\* D, J, K, A, M
DistinctOffsets(f) ==
    /\ Len(f) > 0
    /\ \A i \in DOMAIN AllSlots(f) : AllSlots(f)[i].offset \in SlotOffsets
    /\ \A i, j \in DOMAIN AllSlots(f) :
          i # j => AllSlots(f)[i].offset # AllSlots(f)[j].offset

\* the encoder the running generator emits for format f
EncoderOf(f) == IF gen = GoAsm THEN emitBigEncoderFn(f) ELSE emitFmtEncoderFn(f)

\* the slot expression the running generator builds for slot j of argument a
SlotExprOf(f, a, j) ==
    IF gen = GoAsm THEN slotExprGo(f[a], a, j) ELSE slotExprTCG(f[a], a, j)

\* C15: for every non-empty format of the catalog with pairwise distinct
\* slot offsets among D, J, K, A, M: its combination is in the gathered list
\* exactly once, and so is its combinator among the emitted slot encoders;
\* the encoder calls that combinator with one slot expression per parameter,
\* in ascending offset order, each the fragment of the argument that owns
\* the offset, and does not panic on a missing slot expression; the empty
\* format contributes no combination
C15_CombinatorCall ==
    CombosDone =>
        /\ \A i \in DOMAIN formats :
              DistinctOffsets(formats[i].args) =>
                 LET f == formats[i].args
                     c == slotCombinationForFmt(f)
                     e == EncoderOf(f)
                 IN  /\ ~c.panic
                     /\ Cardinality({k \in DOMAIN scs : scs[k] = c.sc}) = 1
                     /\ e.kind = "call"
                     /\ e.fn = c.sc
                     /\ Len(e.args) = Len(emitSlotEncoderFn(c.sc).params)
                     /\ \A k \in DOMAIN e.args :
                           /\ e.args[k].slot = slotOffsetFromRune(c.sc[k])
                           /\ k > 1 => e.args[k - 1].slot < e.args[k].slot
                           /\ \E j \in DOMAIN f[e.args[k].arg].slots :
                                 /\ f[e.args[k].arg].slots[j].offset = e.args[k].slot
                                 /\ e.args[k] = SlotExprOf(f, e.args[k].arg, j)
        /\ \A k \in DOMAIN scs :
              /\ scs[k] # <<>>
              /\ \E i \in DOMAIN formats :
                    /\ Len(formats[i].args) > 0
                    /\ slotCombinationForFmt(formats[i].args).sc = scs[k]
        /\ \A n \in DOMAIN buf :
              buf[n].stage = "slotEncoders" =>
                 buf[n].text = [k \in DOMAIN scs |-> emitSlotEncoderFn(scs[k])]
        /\ \A n \in DOMAIN buf :
              buf[n].stage \in {"encoders", "fmtEncoders"} =>
                 \A i \in DOMAIN formats :
                    buf[n].text[i].body = EncoderOf(formats[i].args)

\* a completed run whose catalog holds the empty format and two formats
\* that share the combination "DJK", one with a two-slot immediate
C15_Witness ==
    /\ mpc = "exited"
    /\ \E i, j, k \in DOMAIN formats :
          /\ i # j
          /\ Len(formats[k].args) = 0
          /\ DistinctOffsets(formats[i].args)
          /\ DistinctOffsets(formats[j].args)
          /\ slotCombinationForFmt(formats[i].args).sc = <<"D", "J", "K">>
          /\ slotCombinationForFmt(formats[j].args).sc = <<"D", "J", "K">>
          /\ \E a \in DOMAIN formats[j].args : Len(formats[j].args[a].slots) = 2
    /\ scs = << <<"D", "J", "K">> >>

====
